---- MODULE Spec2Model ----
(***************************************************************************)
(* A model of src/CMAC.py: the CMAC tile encoder (class CMAC) and the      *)
(* TD(lambda) action-value approximator built on it (class QvalueCMAC).    *)
(*                                                                         *)
(* Python floats are modelled as exact rationals <<n, d>> (d > 0, lowest   *)
(* terms); rounding error of the float arithmetic is outside the model.    *)
(* numpy arrays are functions from index tuples to rationals, with numpy's *)
(* index rule (a negative index wraps once, anything else out of the       *)
(* dimension raises IndexError).                                           *)
(***************************************************************************)
EXTENDS Integers, Sequences, FiniteSets, TLC

VARIABLES cfg, phase, cmac, actions_map, dimensions,
          weight, eligibility, calls, last

vars == <<cfg, phase, cmac, actions_map, dimensions,
          weight, eligibility, calls, last>>

\* The number of mutating calls (update_eligibilities, reset_eligibility,
\* update_weights) a behaviour makes on one object.
MaxCalls == 2

----------------------------------------------------------------------------
(* Exact arithmetic standing for the float arithmetic of the source.       *)

Abs(x) == IF x < 0 THEN -x ELSE x

RECURSIVE GCD(_, _)
GCD(a, b) == IF b = 0 THEN a ELSE GCD(b, a % b)

Norm(n, d) ==
    LET s == IF d < 0 THEN -1 ELSE 1
        g == GCD(Abs(n), Abs(d))
    IN  <<(s * n) \div g, (s * d) \div g>>

R(i) == <<i, 1>>
Zero == R(0)
One == R(1)

RAdd(p, q) == Norm(p[1] * q[2] + q[1] * p[2], p[2] * q[2])
RSub(p, q) == Norm(p[1] * q[2] - q[1] * p[2], p[2] * q[2])
RMul(p, q) == Norm(p[1] * q[1], p[2] * q[2])
\* defined for q # 0 only; callers raise ZeroDivisionError first
RDiv(p, q) == Norm(p[1] * q[2], p[2] * q[1])
RLess(p, q) == p[1] * q[2] < q[1] * p[2]
RLeq(p, q) == p[1] * q[2] <= q[1] * p[2]

\* math.floor, for comparison with int()
FloorInt(p) == p[1] \div p[2]

\* Python's int(float): truncation toward zero.
TruncInt(p) == IF p[1] >= 0 THEN p[1] \div p[2] ELSE -((-p[1]) \div p[2])

----------------------------------------------------------------------------
(* Constructor arguments the behaviours are drawn from.                    *)

Half == <<1, 2>>

\* features_properties_dict: feature -> <<min, max, number of bins>>
ValidConfigs ==
    { [features |-> [x |-> <<0, 10, 5>>], num_tilings |-> 1,
       actions |-> <<"A", "B">>, Lambda |-> <<9, 10>>, Alpha |-> Half,
       Q0 |-> Zero],
      [features |-> [x |-> <<0, 3, 2>>], num_tilings |-> 2,
       actions |-> <<"A", "B">>, Lambda |-> Half, Alpha |-> One,
       Q0 |-> One],
      [features |-> [x |-> <<0, 3, 1>>, y |-> <<0, 10, 2>>], num_tilings |-> 1,
       actions |-> <<"A", "B">>, Lambda |-> One, Alpha |-> Half,
       Q0 |-> Zero],
      [features |-> [x |-> <<0, 3, 1>>], num_tilings |-> 1,
       actions |-> <<"A", "B", "C">>, Lambda |-> Zero, Alpha |-> One,
       Q0 |-> One] }

InvalidConfigs ==
    { [features |-> [x |-> <<0, 10, b>>], num_tilings |-> 1,
       actions |-> <<"A", "B">>, Lambda |-> Half, Alpha |-> Half,
       Q0 |-> Zero] : b \in {0, -1, -5} }
    \cup
    { [features |-> [x |-> <<3, m, 2>>], num_tilings |-> 1,
       actions |-> <<"A", "B">>, Lambda |-> Half, Alpha |-> Half,
       Q0 |-> Zero] : m \in {3, 0} }

Configs == ValidConfigs \cup InvalidConfigs

\* The values np.random.random() is drawn from, a grid of [0, 1).
RandomDraws == {Zero, <<3, 4>>}

\* Feature values callers pass, and the state dictionaries built from them.
FeatureValues == {0, 3, 10}

\* A dictionary whose key set is not the configured one.
BadKeyStates == { [z |-> 3] }

\* An action mnemonic that is never configured.
UnknownAction == "Z"

\* <<r, old_qval, new_qval>> as a driver passes them to update_weights: TD
\* errors r + new_qval - old_qval of 1, -1, 2 and 0.
TDInputs == { <<1, Zero, Zero>>, <<0, One, Zero>>, <<1, Zero, One>>, <<0, Zero, Zero>> }

None == [err |-> "none"]

Range(f) == { f[i] : i \in DOMAIN f }

\* The record of one call: operation, arguments, exception raised, value returned.
Call(op, s, a, nums, err, ret) ==
    [op |-> op, state |-> s, action |-> a, nums |-> nums, err |-> err, ret |-> ret]

Raise(e) == [err |-> e]

----------------------------------------------------------------------------
(* class CMAC                                                              *)

Keys(c) == DOMAIN c.features
Tilings(c) == 0 .. (c.num_tilings - 1)

\* CMAC.__init__ with the random draws `draw` (feature -> tiling -> [0,1)).
CMAC_new(c, draw) ==
    IF \E k \in Keys(c) : c.features[k][3] = 0
    THEN Raise("ZeroDivisionError")
    ELSE LET isz == [k \in Keys(c) |->
                       RDiv(R(c.features[k][2] - c.features[k][1]),
                            R(c.features[k][3]))]
         IN  [err |-> "none",
              min_range |-> [k \in Keys(c) |-> c.features[k][1]],
              max_range |-> [k \in Keys(c) |-> c.features[k][2]],
              num_bins |-> [k \in Keys(c) |-> c.features[k][3]],
              interval_size |-> isz,
              num_tilings |-> c.num_tilings,
              offset |-> [k \in Keys(c) |->
                            [t \in Tilings(c) |-> RMul(draw[k][t], isz[k])]]]

\* Rounding down instead of toward zero.
ToTileFloor(p) == FloorInt(p)

\* int(float(...)): the conversion of the quotient to a tile coordinate
ToTile(p) == TruncInt(p)

\* The tile coordinate of value v of feature key in tiling tile, for an
\* encoder m whose interval_size[key] is not zero.
TileOf(m, key, tile, v) ==
    ToTile(RDiv(RSub(RSub(v, R(m.min_range[key])), m.offset[key][tile]),
                m.interval_size[key]))

\* CMAC.get_tiles(state_dict, tile) of encoder m; tiles_list is the set of
\* tilings asked for.
get_tiles(m, state_dict, tiles_list) ==
    IF DOMAIN state_dict # DOMAIN m.min_range
    THEN Raise("AssertionError")
    ELSE IF tiles_list # {} /\ \E k \in DOMAIN state_dict : m.interval_size[k] = Zero
    THEN Raise("ZeroDivisionError")
    ELSE IF \E t \in tiles_list : \E k \in DOMAIN state_dict : t \notin DOMAIN m.offset[k]
    THEN Raise("KeyError")
    ELSE [err |-> "none",
          val |-> [k \in DOMAIN state_dict |->
                     [t \in tiles_list |-> TileOf(m, k, t, R(state_dict[k]))]]]

----------------------------------------------------------------------------
(* class QvalueCMAC: construction                                          *)

\* enumerate(action_mnemonics_list): mnemonic -> index, counted from 0
ActionsMapOf(c) ==
    [a \in Range(c.actions) |->
        (CHOOSE i \in DOMAIN c.actions : c.actions[i] = a) - 1]

\* self.dimensions: one entry per feature, then tilings, then actions
DimensionsOf(c, m) ==
    [feat |-> [k \in Keys(c) |-> m.num_bins[k] + 1],
     tilings |-> c.num_tilings,
     actions |-> Cardinality(DOMAIN ActionsMapOf(c))]

\* The index tuples <<tile coordinates, tiling, action>> of an array of
\* dimensions dim (none when a dimension is 0).
Cells(dim) ==
    LET top == CHOOSE n \in { dim.feat[k] : k \in DOMAIN dim.feat } :
                   \A k \in DOMAIN dim.feat : dim.feat[k] <= n
    IN  { <<co, t, a>> :
            co \in { f \in [DOMAIN dim.feat -> 0 .. (top - 1)] :
                       \A k \in DOMAIN dim.feat : f[k] < dim.feat[k] },
            t \in 0 .. (dim.tilings - 1),
            a \in 0 .. (dim.actions - 1) }

\* np.ones(dimensions) * Q0 / float(num_tilings), and np.zeros(dimensions)
InitialWeight(c, dim) == [x \in Cells(dim) |-> RDiv(c.Q0, R(c.num_tilings))]
Zeros(dim) == [x \in Cells(dim) |-> Zero]

\* QvalueCMAC.__init__ with the random draws `draw`
QvalueCMAC_new(c, draw) ==
    LET m == CMAC_new(c, draw)
    IN  IF m.err # "none" THEN m
        ELSE LET dim == DimensionsOf(c, m)
             IN  IF \E k \in Keys(c) : dim.feat[k] < 0
                 THEN Raise("ValueError")
                 ELSE [err |-> "none", cmac |-> m,
                       actions_map |-> ActionsMapOf(c),
                       dimensions |-> dim,
                       weight |-> InitialWeight(c, dim),
                       eligibility |-> Zeros(dim)]

----------------------------------------------------------------------------
(* class QvalueCMAC: operations.  Arrays are passed explicitly (w: weight, *)
(* e: eligibility); the encoder, the action map and the dimensions are     *)
(* read from the object.                                                   *)

\* numpy's rule for one index i into a dimension of size d; -1: IndexError
NumpyIndex(i, d) ==
    IF 0 <= i /\ i < d THEN i
    ELSE IF -d <= i /\ i < 0 THEN i + d
    ELSE -1

\* QvalueCMAC._get_state_as_tile_tuple
get_state_as_tile_tuple(state_dict, tile) ==
    LET g == get_tiles(cmac, state_dict, {tile})
    IN  IF g.err # "none" THEN g
        ELSE [err |-> "none",
              val |-> [k \in DOMAIN dimensions.feat |-> g.val[k][tile]]]

\* The array cell t + (tile, act) addresses, as numpy resolves it.
CellAt(state_dict, tile, act) ==
    LET t == get_state_as_tile_tuple(state_dict, tile)
    IN  IF t.err # "none" THEN t
        ELSE LET co == [k \in DOMAIN t.val |->
                          NumpyIndex(t.val[k], dimensions.feat[k])]
             IN  IF \E k \in DOMAIN co : co[k] = -1
                 THEN Raise("IndexError")
                 ELSE [err |-> "none", cell |-> <<co, tile, act>>]

RECURSIVE QLoop(_, _, _, _, _)
QLoop(w, state_dict, act, tile, value) ==
    IF tile >= cmac.num_tilings THEN [err |-> "none", val |-> value]
    ELSE LET c == CellAt(state_dict, tile, act)
         IN  IF c.err # "none" THEN c
             ELSE QLoop(w, state_dict, act, tile + 1, RAdd(value, w[c.cell]))

\* QvalueCMAC.get_qvalue
get_qvalue(w, state_dict, action_mnemonics) ==
    IF action_mnemonics \notin DOMAIN actions_map THEN Raise("KeyError")
    ELSE QLoop(w, state_dict, actions_map[action_mnemonics], 0, Zero)

\* A comparison that also replaces the incumbent on a tie.
BetterOrEqual(qvalue, best_qvalue) == RLeq(best_qvalue, qvalue)

\* the comparison that replaces the incumbent
Better(qvalue, best_qvalue) == RLess(best_qvalue, qvalue)

RECURSIVE Scan(_, _, _, _, _, _)
Scan(w, state_dict, order, i, best_action, best_qvalue) ==
    IF i > Len(order) THEN [err |-> "none", val |-> <<best_action, best_qvalue>>]
    ELSE LET q == get_qvalue(w, state_dict, order[i])
         IN  IF q.err # "none" THEN q
             ELSE IF Better(q.val, best_qvalue)
             THEN Scan(w, state_dict, order, i + 1, order[i], q.val)
             ELSE Scan(w, state_dict, order, i + 1, best_action, best_qvalue)

\* QvalueCMAC._get_best_action_and_qvalue_for_state, with `first` the
\* outcome of random.choice and `order` the iteration order of actions_map.
get_best_action_and_qvalue_for_state(w, state_dict, first, order) ==
    LET q == get_qvalue(w, state_dict, first)
    IN  IF q.err # "none" THEN q
        ELSE Scan(w, state_dict, order, 1, first, q.val)

\* A decay that was forgotten: the traces are left as they are.
DecayForgotten(e) == e

\* self.eligibility *= self.Lambda
Decay(e) == [x \in DOMAIN e |-> RMul(e[x], cfg.Lambda)]

\* Setting the acting cell without clearing the other actions' cells.
SetTraceKeepOthers(e, cell) == [e EXCEPT ![cell] = One]

\* eligibility[t+(tile,slice(None))] = 0 ; eligibility[t+(tile,act)] = 1
SetTrace(e, cell) ==
    [x \in DOMAIN e |->
        IF x[1] = cell[1] /\ x[2] = cell[2]
        THEN (IF x[3] = cell[3] THEN One ELSE Zero)
        ELSE e[x]]

RECURSIVE TraceLoop(_, _, _, _)
TraceLoop(e, state_dict, act, tile) ==
    IF tile >= cmac.num_tilings THEN [err |-> "none", e |-> e]
    ELSE LET c == CellAt(state_dict, tile, act)
         IN  IF c.err # "none" THEN [err |-> c.err, e |-> e]
             ELSE TraceLoop(SetTrace(e, c.cell), state_dict, act, tile + 1)

\* QvalueCMAC.update_eligibilities: the exception raised, if any, and the
\* eligibility array the call leaves behind.
update_eligibilities(e, state_dict, action) ==
    IF action \notin DOMAIN actions_map
    THEN [err |-> "KeyError", e |-> Decay(e)]
    ELSE TraceLoop(Decay(e), state_dict, actions_map[action], 0)

\* The step without the division by the number of tilings.
TDStepNoTilings(r, old_qval, new_qval) ==
    RMul(cfg.Alpha, RSub(RAdd(R(r), new_qval), old_qval))

\* The step without the learning rate.
TDStepNoAlpha(r, old_qval, new_qval) ==
    RDiv(RSub(RAdd(R(r), new_qval), old_qval), R(cmac.num_tilings))

\* (Alpha/float(num_tilings)) * (r + new_qval - old_qval)
TDStep(r, old_qval, new_qval) ==
    RMul(RDiv(cfg.Alpha, R(cmac.num_tilings)),
         RSub(RAdd(R(r), new_qval), old_qval))

\* QvalueCMAC.update_weights: the weight array after the call
update_weights(w, e, r, old_qval, new_qval) ==
    [x \in DOMAIN w |-> RAdd(w[x], RMul(TDStep(r, old_qval, new_qval), e[x]))]

----------------------------------------------------------------------------
(* Inputs of the calls                                                     *)

StateInputs(c) == [Keys(c) -> FeatureValues] \cup BadKeyStates
ActionInputs(c) == Range(c.actions) \cup {UnknownAction}
Draws(c) == [Keys(c) -> [Tilings(c) -> RandomDraws]]

\* The orders in which iterating over a dictionary with key set S may yield
\* its keys.
Orders(S) ==
    { f \in [1 .. Cardinality(S) -> S] : \A x \in S : \E i \in DOMAIN f : f[i] = x }

NoCall == Call("none", <<>>, "", <<>>, "none", <<>>)

\* The calls that return a value and leave the object as it was.
Queries == {"get_tiles", "get_qvalue", "get_best"}

\* A query changes nothing of the object, so whatever may follow it may
\* follow the state it was made in: a behaviour makes its calls on the object
\* and may end with one query, whose result `last` records.
Open == last.op \notin Queries

----------------------------------------------------------------------------
(* The state machine                                                       *)

Init ==
    /\ cfg \in Configs
    /\ phase = "new"
    /\ cmac = <<>>
    /\ actions_map = <<>>
    /\ dimensions = <<>>
    /\ weight = <<>>
    /\ eligibility = <<>>
    /\ calls = 0
    /\ last = NoCall

\* CMAC(features_properties_dict, num_tilings): a tile encoder on its own
ConstructCMAC ==
    /\ phase = "new"
    /\ \E draw \in Draws(cfg) :
         LET m == CMAC_new(cfg, draw)
         IN  /\ last' = Call("CMAC", <<>>, "", <<>>, m.err, <<>>)
             /\ IF m.err # "none"
                THEN phase' = "failed" /\ cmac' = cmac
                ELSE phase' = "encoder" /\ cmac' = m
    /\ UNCHANGED <<cfg, actions_map, dimensions, weight, eligibility, calls>>

\* QvalueCMAC(features_properties_dict, num_tilings, action_mnemonics_list, ...)
ConstructQvalueCMAC ==
    /\ phase = "new"
    /\ \E draw \in Draws(cfg) :
         LET q == QvalueCMAC_new(cfg, draw)
         IN  /\ last' = Call("QvalueCMAC", <<>>, "", <<>>, q.err, <<>>)
             /\ IF q.err # "none"
                THEN /\ phase' = "failed"
                     /\ UNCHANGED <<cmac, actions_map, dimensions, weight, eligibility>>
                ELSE /\ phase' = "ready"
                     /\ cmac' = q.cmac
                     /\ actions_map' = q.actions_map
                     /\ dimensions' = q.dimensions
                     /\ weight' = q.weight
                     /\ eligibility' = q.eligibility
    /\ UNCHANGED <<cfg, calls>>

\* cmac.get_tiles(state_dict, tile), tile given or None (all tilings)
GetTiles ==
    /\ phase \in {"encoder", "ready"}
    /\ Open
    /\ \E s \in StateInputs(cfg) :
       \E tl \in { {t} : t \in Tilings(cfg) } \cup {Tilings(cfg)} :
         LET g == get_tiles(cmac, s, tl)
         IN  last' = Call("get_tiles", s, "", tl, g.err,
                          IF g.err = "none" THEN g.val ELSE <<>>)
    /\ UNCHANGED <<cfg, phase, cmac, actions_map, dimensions, weight,
                   eligibility, calls>>

GetQvalue ==
    /\ phase = "ready"
    /\ Open
    /\ \E s \in StateInputs(cfg) : \E a \in ActionInputs(cfg) :
         LET q == get_qvalue(weight, s, a)
         IN  last' = Call("get_qvalue", s, a, <<>>, q.err,
                          IF q.err = "none" THEN q.val ELSE <<>>)
    /\ UNCHANGED <<cfg, phase, cmac, actions_map, dimensions, weight,
                   eligibility, calls>>

\* get_best_action_for_state / get_best_qvalue_for_state: both return a
\* component of _get_best_action_and_qvalue_for_state
GetBest ==
    /\ phase = "ready"
    /\ Open
    /\ \E s \in StateInputs(cfg) :
       \E first \in DOMAIN actions_map :
       \E order \in Orders(DOMAIN actions_map) :
         LET b == get_best_action_and_qvalue_for_state(weight, s, first, order)
         IN  last' = Call("get_best", s, first, <<>>, b.err,
                          IF b.err = "none" THEN b.val ELSE <<>>)
    /\ UNCHANGED <<cfg, phase, cmac, actions_map, dimensions, weight,
                   eligibility, calls>>

UpdateEligibilities ==
    /\ phase = "ready"
    /\ Open
    /\ calls < MaxCalls
    /\ \E s \in StateInputs(cfg) : \E a \in ActionInputs(cfg) :
         LET u == update_eligibilities(eligibility, s, a)
         IN  /\ eligibility' = u.e
             /\ last' = Call("update_eligibilities", s, a, <<>>, u.err, <<>>)
    /\ calls' = calls + 1
    /\ UNCHANGED <<cfg, phase, cmac, actions_map, dimensions, weight>>

\* A reset that zeroes the weights along with the traces.
ResetEligibilityAndWeights ==
    /\ phase = "ready"
    /\ Open
    /\ calls < MaxCalls
    /\ eligibility' = Zeros(dimensions)
    /\ weight' = Zeros(dimensions)
    /\ last' = Call("reset_eligibility", <<>>, "", <<>>, "none", <<>>)
    /\ calls' = calls + 1
    /\ UNCHANGED <<cfg, phase, cmac, actions_map, dimensions>>

ResetEligibility ==
    /\ phase = "ready"
    /\ Open
    /\ calls < MaxCalls
    /\ eligibility' = Zeros(dimensions)
    /\ last' = Call("reset_eligibility", <<>>, "", <<>>, "none", <<>>)
    /\ calls' = calls + 1
    /\ UNCHANGED <<cfg, phase, cmac, actions_map, dimensions, weight>>

UpdateWeights ==
    /\ phase = "ready"
    /\ Open
    /\ calls < MaxCalls
    /\ \E td \in TDInputs :
         /\ weight' = update_weights(weight, eligibility, td[1], td[2], td[3])
         /\ last' = Call("update_weights", <<>>, "", td, "none", <<>>)
    /\ calls' = calls + 1
    /\ UNCHANGED <<cfg, phase, cmac, actions_map, dimensions, eligibility>>

Next ==
    \/ ConstructCMAC
    \/ ConstructQvalueCMAC
    \/ GetTiles
    \/ GetQvalue
    \/ GetBest
    \/ UpdateEligibilities
    \/ ResetEligibility
    \/ UpdateWeights

Spec == Init /\ [][Next]_vars

----------------------------------------------------------------------------
(* Vocabulary of the properties                                            *)

\* A feature specification the data model allows: max > min, numBins > 0.
ValidFeature(spec) == spec[2] > spec[1] /\ spec[3] > 0
ValidCfg == \A k \in Keys(cfg) : ValidFeature(cfg.features[k])

\* A state map with the configured key set and every value in [min, max].
ValidState(s) ==
    /\ DOMAIN s = Keys(cfg)
    /\ \A k \in Keys(cfg) : cfg.features[k][1] <= s[k] /\ s[k] <= cfg.features[k][2]

ValidStates == { s \in StateInputs(cfg) : ValidState(s) }

Constructed == phase \in {"encoder", "ready"}

\* encode(s, t): the tile coordinates of state s in tiling t
Encode(s, t) == get_state_as_tile_tuple(s, t).val

\* The value a successful get_qvalue returns.
Q(w, s, a) == get_qvalue(w, s, a).val

ActionIndexes == { actions_map[a] : a \in DOMAIN actions_map }

----------------------------------------------------------------------------
\* C1: replacing-trace law.  A call update_eligibilities(s, a) with a valid
\* state and a configured action succeeds, and after it, for every tiling t,
\* the cell (encode(s, t), t, a) is exactly 1, every other action's cell at
\* (encode(s, t), t) is exactly 0, and every cell at a (tile, tiling)
\* position s does not visit is Lambda times its value before the call.
C1_ReplacingTrace ==
    [][ ( /\ phase = "ready" /\ ValidCfg
          /\ last'.op = "update_eligibilities"
          /\ last'.action \in DOMAIN actions_map
          /\ ValidState(last'.state) )
        => LET s == last'.state
               a == actions_map[last'.action]
           IN  /\ last'.err = "none"
               /\ \A t \in Tilings(cfg) :
                    /\ eligibility'[<<Encode(s, t), t, a>>] = One
                    /\ \A b \in ActionIndexes \ {a} :
                         eligibility'[<<Encode(s, t), t, b>>] = Zero
               /\ \A x \in DOMAIN eligibility :
                    x[1] # Encode(s, x[2])
                      => eligibility'[x] = RMul(cfg.Lambda, eligibility[x]) ]_vars

\* C1 witness: a second update_eligibilities has just succeeded on a valid
\* state; the cell it set is 1, another action's cell it cleared held a trace
\* before, and an unvisited cell carries a decayed trace that is neither 0 nor 1.
C1_Witness ==
    /\ phase = "ready" /\ ValidCfg /\ calls = 2
    /\ last.op = "update_eligibilities" /\ last.err = "none"
    /\ ValidState(last.state)
    /\ \E x \in DOMAIN eligibility :
         /\ x[1] # Encode(last.state, x[2])
         /\ eligibility[x] = cfg.Lambda
         /\ eligibility[x] \notin {Zero, One}
    /\ \A t \in Tilings(cfg) :
         eligibility[<<Encode(last.state, t), t, actions_map[last.action]>>] = One

----------------------------------------------------------------------------
\* C2: weight-update conservation.  update_weights(r, q_old, q_new) changes
\* every weight cell x by exactly (Alpha / numTilings) * (r + q_new - q_old)
\* * eligibility[x], and a cell whose eligibility is zero keeps its weight.
C2_WeightUpdate ==
    [][ (phase = "ready" /\ last'.op = "update_weights")
        => LET r == R(last'.nums[1])
               q_old == last'.nums[2]
               q_new == last'.nums[3]
               k == RDiv(RMul(cfg.Alpha, RSub(RAdd(r, q_new), q_old)),
                         R(cfg.num_tilings))
           IN  \A x \in DOMAIN weight :
                 /\ RSub(weight'[x], weight[x]) = RMul(k, eligibility[x])
                 /\ eligibility[x] = Zero => weight'[x] = weight[x] ]_vars

\* C2 witness: update_weights has just run with a nonzero TD error on an
\* object with two tilings; a cell with a trace moved away from its initial
\* weight and a cell without a trace kept it.
C2_Witness ==
    /\ phase = "ready" /\ cfg.num_tilings = 2
    /\ last.op = "update_weights"
    /\ \E x \in DOMAIN weight :
         eligibility[x] # Zero /\ weight[x] # RDiv(cfg.Q0, R(cfg.num_tilings))
    /\ \E x \in DOMAIN weight :
         eligibility[x] = Zero /\ weight[x] = RDiv(cfg.Q0, R(cfg.num_tilings))

----------------------------------------------------------------------------
\* C3: best action.  A successful _get_best_action_and_qvalue_for_state(s)
\* returns (a, q) with q = get_qvalue(s, a) and q >= get_qvalue(s, a') for
\* every configured a'; when the value of the incumbent first chosen equals
\* the maximum over all actions, the incumbent is the action returned.
C3_BestAction ==
    (phase = "ready" /\ last.op = "get_best" /\ last.err = "none")
    => LET s == last.state
           first == last.action
           a == last.ret[1]
           q == last.ret[2]
       IN  /\ a \in DOMAIN actions_map
           /\ q = Q(weight, s, a)
           /\ \A b \in DOMAIN actions_map : RLeq(Q(weight, s, b), q)
           /\ (\A b \in DOMAIN actions_map :
                 RLeq(Q(weight, s, b), Q(weight, s, first)))
              => a = first

\* C3 witness: three actions with learned, unequal values; the incumbent
\* ties for the maximum with another action, a third action is strictly
\* worse, and the incumbent is returned.
C3_Witness ==
    /\ phase = "ready" /\ last.op = "get_best" /\ last.err = "none"
    /\ last.ret[1] = last.action
    /\ \E b \in DOMAIN actions_map \ {last.action} :
         Q(weight, last.state, b) = last.ret[2]
    /\ \E c \in DOMAIN actions_map :
         RLess(Q(weight, last.state, c), last.ret[2])

----------------------------------------------------------------------------
\* C4: tile monotonicity.  For a valid configuration, every feature, tiling
\* and feature value v, the tile coordinate of v + intervalSize is exactly 1
\* greater than that of v, the coordinate being
\* floor((v - min - offset) / intervalSize).
C4_TileMonotone ==
    (Constructed /\ ValidCfg)
    => \A k \in Keys(cfg) : \A t \in Tilings(cfg) : \A i \in FeatureValues :
         LET v == R(i)
             quotient == RDiv(RSub(RSub(v, R(cmac.min_range[k])),
                                   cmac.offset[k][t]),
                              cmac.interval_size[k])
         IN  /\ TileOf(cmac, k, t, RAdd(v, cmac.interval_size[k]))
                  = TileOf(cmac, k, t, v) + 1
             /\ TileOf(cmac, k, t, v) = FloorInt(quotient)

----------------------------------------------------------------------------
\* C5: construction rejects a malformed feature specification: no encoder
\* or approximator object exists whose configuration has a feature with
\* numBins <= 0 or max <= min.
C5_InvalidConfigRejected ==
    Constructed => ValidCfg

----------------------------------------------------------------------------
\* C6: the weight array is changed by update_weights only.  Every other call
\* on a constructed approximator leaves every weight cell as it was, and
\* get_qvalue(s, a) after reset_eligibility is what it was before it, for
\* every valid state s and configured action a.
C6_WeightsFrame ==
    [][ phase = "ready"
        => /\ last'.op # "update_weights" => weight' = weight
           /\ last'.op = "reset_eligibility"
                => \A s \in ValidStates : \A a \in DOMAIN actions_map :
                     get_qvalue(weight', s, a) = get_qvalue(weight, s, a) ]_vars

\* C6 witness: reset_eligibility has just run as the second call on an
\* approximator whose weights give a nonzero value (Q0 # 0): the trace array
\* is all zero and the value is still read.
C6_Witness ==
    /\ phase = "ready" /\ ValidCfg /\ last.op = "reset_eligibility" /\ calls = 2
    /\ \A x \in DOMAIN eligibility : eligibility[x] = Zero
    /\ \E s \in ValidStates : \E a \in DOMAIN actions_map :
         Q(weight, s, a) # Zero

----------------------------------------------------------------------------
\* C7: end-to-end scenario.  With featureSpecs {x: (0, 10, 5)}, one tiling,
\* actions [A, B], Q0 = 0 and Alpha = 0.5, for every offset drawn:
\* get_qvalue({x: 3}, A) is 0 after construction, and after
\* update_eligibilities({x: 3}, A) followed by update_weights(1, 0, 0),
\* get_qvalue({x: 3}, A) is 0.5 and get_qvalue({x: 3}, B) is 0.
Scenario ==
    /\ cfg.features = [x |-> <<0, 10, 5>>]
    /\ cfg.num_tilings = 1
    /\ cfg.actions = <<"A", "B">>
    /\ cfg.Q0 = Zero
    /\ cfg.Alpha = Half

C7_EndToEnd ==
    [][ Scenario
        => /\ (phase = "ready" /\ calls = 0)
                => get_qvalue(weight, [x |-> 3], "A") = [err |-> "none", val |-> Zero]
           /\ ( /\ calls = 1
                /\ last.op = "update_eligibilities"
                /\ last.state = [x |-> 3] /\ last.action = "A"
                /\ last'.op = "update_weights"
                /\ last'.nums = <<1, Zero, Zero>> )
                => /\ last.err = "none"
                   /\ get_qvalue(weight', [x |-> 3], "A") = [err |-> "none", val |-> Half]
                   /\ get_qvalue(weight', [x |-> 3], "B") = [err |-> "none", val |-> Zero] ]_vars

\* C7 witness: the scenario has been played to its end with the offset that
\* puts x = 3 in tile 0 (offset 1.5 of an interval of 2): the trace of
\* ({x: 3}, A) is 1, exactly two calls were made, the second being
\* update_weights(1, 0, 0), and A's value at {x: 3} is 0.5.
C7_Witness ==
    /\ Scenario /\ phase = "ready" /\ calls = 2
    /\ last.op = "update_weights" /\ last.nums = <<1, Zero, Zero>>
    /\ cmac.offset["x"][0] = <<3, 2>>
    /\ Encode([x |-> 3], 0) = [x |-> 0]
    /\ eligibility[<<[x |-> 0], 0, actions_map["A"]>>] = One
    /\ Q(weight, [x |-> 3], "A") = Half
    /\ Q(weight, [x |-> 3], "B") = Zero

----------------------------------------------------------------------------
\* C8: a failing update_eligibilities changes nothing.  When the action is
\* not configured, or the key set of the state differs from the configured
\* features, the eligibility and weight arrays after the call equal, cell
\* for cell, the arrays before it.
C8_FailedCallChangesNothing ==
    [][ ( /\ phase = "ready"
          /\ last'.op = "update_eligibilities"
          /\ \/ last'.action \notin DOMAIN actions_map
             \/ DOMAIN last'.state # Keys(cfg) )
        => /\ last'.err # "none"
           /\ eligibility' = eligibility
           /\ weight' = weight ]_vars

----------------------------------------------------------------------------
\* C9: eligibility invariant.  With Lambda in [0, 1], after construction and
\* any sequence of reset_eligibility, update_eligibilities and update_weights
\* calls, every eligibility entry lies in [0, 1] and at every (tile
\* coordinates, tiling) position at most one action has a nonzero entry.
C9_EligibilityInvariant ==
    (phase = "ready" /\ RLeq(Zero, cfg.Lambda) /\ RLeq(cfg.Lambda, One))
    => /\ \A x \in DOMAIN eligibility :
            RLeq(Zero, eligibility[x]) /\ RLeq(eligibility[x], One)
       /\ \A x \in DOMAIN eligibility : \A y \in DOMAIN eligibility :
            (x[1] = y[1] /\ x[2] = y[2] /\ x[3] # y[3])
              => (eligibility[x] = Zero \/ eligibility[y] = Zero)

\* C9 witness: update_eligibilities has just succeeded as the second call;
\* one cell holds a decayed trace strictly between 0 and 1 and another holds 1.
C9_Witness ==
    /\ phase = "ready" /\ ValidCfg /\ calls = 2
    /\ last.op = "update_eligibilities" /\ last.err = "none"
    /\ \E x \in DOMAIN eligibility : \E y \in DOMAIN eligibility :
         /\ RLess(Zero, eligibility[x]) /\ RLess(eligibility[x], One)
         /\ eligibility[y] = One

----------------------------------------------------------------------------
\* C10: indexing stays in bounds.  For a valid configuration, every offset
\* drawn and every feature value v with min <= v <= max, the tile coordinate
\* lies in [0, numBins]; the cell get_qvalue and update_eligibilities address
\* for a valid state exists and is addressed without wrapping.
C10_IndexInBounds ==
    (Constructed /\ ValidCfg)
    => /\ \A k \in Keys(cfg) : \A t \in Tilings(cfg) :
          \A n \in (2 * cmac.min_range[k]) .. (2 * cmac.max_range[k]) :
            LET c == TileOf(cmac, k, t, <<n, 2>>)
            IN  0 <= c /\ c <= cmac.num_bins[k]
       /\ phase = "ready"
            => \A s \in ValidStates : \A t \in Tilings(cfg) :
               \A a \in ActionIndexes :
                 CellAt(s, t, a) = [err |-> "none", cell |-> <<Encode(s, t), t, a>>]

\* C10 witness: get_tiles has just returned, for a valid state, a coordinate
\* equal to numBins (the value is max and the offset 0) and, in another
\* tiling whose offset is positive, coordinate 0 for a value below
\* min + offset.
C10_Witness ==
    /\ Constructed /\ ValidCfg
    /\ last.op = "get_tiles" /\ last.err = "none" /\ ValidState(last.state)
    /\ \E k \in Keys(cfg) : \E t \in DOMAIN last.ret[k] :
         last.ret[k][t] = cmac.num_bins[k]
    /\ \E k \in Keys(cfg) : \E t \in DOMAIN last.ret[k] :
         /\ last.ret[k][t] = 0
         /\ RLess(R(last.state[k] - cmac.min_range[k]), cmac.offset[k][t])

====
